---- MODULE Spec2Model ----
(***************************************************************************)
(* Model of FAST_api.py: the POST /summarize handler, its helpers          *)
(* extract_video_id, get_video_details and get_transcript, and the         *)
(* module-level prompt template and language table.                        *)
(*                                                                         *)
(* Text is a sequence of atoms (TLA+ strings); the text it stands for is   *)
(* the concatenation of its atoms.  URLs are sequences of one-character    *)
(* atoms, because the regular expression of extract_video_id reads them    *)
(* character by character.  An optional value (Python's None or a value)   *)
(* is a sequence of length zero or one.                                    *)
(***************************************************************************)
EXTENDS Integers, Sequences, FiniteSets, TLC

\* ------------------------------------------------------------------ bounds
NumRequests == 2   \* requests in flight in the concurrent specification
MaxChunks == 4     \* URL fragments per input of extract_video_id
MaxEntries == 2    \* caption entries in a transcript service reply
MaxItems == 2      \* items in a metadata service reply

\* ----------------------------------------------------------- basic values
None == <<>>
Some(v) == <<v>>

RECURSIVE Flatten(_)
Flatten(ss) == IF ss = <<>> THEN <<>> ELSE Head(ss) \o Flatten(Tail(ss))

SeqsUpTo(S, n) == UNION {[1..k -> S] : k \in 0..n}

\* s contains sub as a contiguous run of atoms
Contains(s, sub) ==
    \E i \in 0..(Len(s) - Len(sub)) : SubSeq(s, i + 1, i + Len(sub)) = sub

\* ------------------------------------------------------- extract_video_id
\* re.search(r"(?:v=|\/)([0-9A-Za-z_-]{11}).*", url)
IdLen == 11

Digits == {"0", "1", "2", "3", "4", "5", "6", "7", "8", "9"}
Upper == {"A", "B", "C", "D", "E", "F", "G", "H", "I", "J", "K", "L", "M",
          "N", "O", "P", "Q", "R", "S", "T", "U", "V", "W", "X", "Y", "Z"}
Lower == {"a", "b", "c", "d", "e", "f", "g", "h", "i", "j", "k", "l", "m",
          "n", "o", "p", "q", "r", "s", "t", "u", "v", "w", "x", "y", "z"}
IdChars == Digits \cup Upper \cup Lower \cup {"_", "-"}

\* [0-9A-Za-z_-]{11} matches at position i
IsIdRun(url, i) ==
    /\ i + IdLen - 1 <= Len(url)
    /\ \A k \in i..(i + IdLen - 1) : url[k] \in IdChars

\* The pattern tried at start position i: the alternation takes "v=" first
\* and "/" second; the trailing ".*" matches any rest, the empty one too.
\* The value is the position where group 1 starts, 0 when there is no match.
MatchAt(url, i) ==
    IF i + 1 <= Len(url) /\ url[i] = "v" /\ url[i + 1] = "=" /\ IsIdRun(url, i + 2)
    THEN i + 2
    ELSE IF url[i] = "/" /\ IsIdRun(url, i + 1)
         THEN i + 1
         ELSE 0

\* re.search: the leftmost start position at which the pattern matches
RECURSIVE SearchFrom(_, _)
SearchFrom(url, i) ==
    IF i > Len(url) THEN 0
    ELSE IF MatchAt(url, i) # 0 THEN MatchAt(url, i)
    ELSE SearchFrom(url, i + 1)

\* re.match in place of re.search: the pattern is tried at the first position only
extract_video_id_anchored(url) ==
    LET g == IF url = <<>> THEN 0 ELSE MatchAt(url, 1)
    IN  IF g # 0 THEN Some(SubSeq(url, g, g + IdLen - 1)) ELSE None

extract_video_id(url) ==
    LET g == SearchFrom(url, 1)
    IN  IF g # 0 THEN Some(SubSeq(url, g, g + IdLen - 1)) ELSE None

\* ------------------------------------------------------------ sample URLs
UrlNotAUrl == <<"n", "o", "t", " ", "a", " ", "u", "r", "l">>
UrlNoScheme == <<"y", "o", "u", "t", "u", "b", "e", ".", "c", "o", "m", "/",
                 "w", "a", "t", "c", "h", "?", "v", "=",
                 "d", "Q", "w", "4", "w", "9", "W", "g", "X", "c", "Q">>
UrlExample == <<"h", "t", "t", "p", "s", ":", "/", "/",
                "e", "x", "a", "m", "p", "l", "e", ".", "c", "o", "m", "/">>
UrlWatch == <<"h", "t", "t", "p", "s", ":", "/", "/", "w", "w", "w", ".",
              "y", "o", "u", "t", "u", "b", "e", ".", "c", "o", "m", "/",
              "w", "a", "t", "c", "h", "?", "v", "=",
              "d", "Q", "w", "4", "w", "9", "W", "g", "X", "c", "Q">>
UrlShort == <<"h", "t", "t", "p", "s", ":", "/", "/",
              "y", "o", "u", "t", "u", ".", "b", "e", "/",
              "9", "b", "Z", "k", "p", "7", "q", "1", "9", "f", "0">>

\* Fragments the inputs of extract_video_id are assembled from: the two
\* markers, a run of exactly IdLen token characters, a run one short of it,
\* a single token character, and a character outside the class.
Chunks == {
    <<"v", "=">>,
    <<"/">>,
    <<"d", "Q", "w", "4", "w", "9", "W", "g", "X", "-", "_">>,
    <<"0", "1", "2", "3", "4", "5", "6", "7", "8", "9">>,
    <<"a">>,
    <<"?">> }

ExtractUrls == {Flatten(cs) : cs \in SeqsUpTo(Chunks, MaxChunks)}

\* ------------------------------------------------------ module-level data
\* language_codes, lines 74-75
LanguageTable ==
    ("English" :> "en") @@ ("Arabic" :> "ar") @@ ("Spanish" :> "es") @@
    ("French" :> "fr") @@ ("German" :> "de") @@ ("Italian" :> "it") @@
    ("Portuguese" :> "pt") @@ ("Chinese" :> "zh") @@ ("Japanese" :> "ja") @@
    ("Korean" :> "ko")

\* prompt_template, lines 34-70: the text before {language}, between
\* {language} and {text}, and after {text}.  The text after {text} is the
\* fixed list of instructions of lines 41-69, which holds no placeholder; one
\* atom stands for it.
PromptTemplateText ==
    [prefix |-> <<"\nContent Summary Request\n\nLanguage: ">>,
     mid    |-> <<"\nWord Count: Approximately 300 words\nSource: ">>,
     suffix |-> <<"\n\nObjective: [instructions, lines 41-69]\n">>]

ModelName == "llama-3.1-70b-versatile"

VARIABLES
    language_codes,   \* the module-level language table
    prompt_template,  \* the module-level prompt template
    httpExcStr,       \* how the installed framework renders str(HTTPException)
    pc,               \* where each request's handler stands
    req,              \* each request's body
    model,            \* each handler's local: the LLM client
    video_id,         \* each handler's local: the extracted video ID
    details,          \* each handler's locals title and description
    transcript,       \* each handler's local: the transcript text
    calls,            \* each request's external calls so far, with outcomes
    console,          \* what each handler has printed
    response,         \* what each caller receives
    exPc,             \* extract_video_id exercised alone: position
    exUrl,            \* its argument
    exResult          \* its return value

handlerVars == <<pc, req, model, video_id, details, transcript, calls,
                 console, response>>
moduleVars == <<language_codes, prompt_template, httpExcStr>>
extractVars == <<exPc, exUrl, exResult>>
vars == <<moduleVars, handlerVars, extractVars>>

Handlers == 1..NumRequests

\* ------------------------------------------------------------- responses
NoResponse == [status |-> 0, body |-> "none", text |-> <<>>]
ErrorResponse(status_code, detail) ==
    [status |-> status_code, body |-> "detail", text |-> detail]
SummaryResponse(output) == [status |-> 200, body |-> "summary", text |-> output]

\* exceptions
HTTPException(status_code, detail) ==
    [type |-> "HTTPException", status_code |-> status_code, text |-> detail]
Raised(msg) == [type |-> "Exception", status_code |-> 0, text |-> msg]

\* str(e), line 149.  For an HTTPException the text depends on the installed
\* framework: "<status>: <detail>" where the class defines __str__, the empty
\* string where it does not (the exception is built from keyword arguments).
StrOf(e) ==
    IF e.type = "HTTPException"
    THEN IF httpExcStr = "status_detail"
         THEN <<ToString(e.status_code), ": ">> \o e.text
         ELSE <<>>
    ELSE e.text

\* the handler lets the framework answer an HTTPException it raises
Respond(e) == ErrorResponse(e.status_code, e.text)

\* except Exception as e: raise HTTPException(500, f"Error occurred: {str(e)}")
\* the message of the caught exception left out
ExceptHandlerNoText(e) == HTTPException(500, <<"Error occurred">>)

ExceptHandler(e) == HTTPException(500, <<"Error occurred: ">> \o StrOf(e))

\* "is not None" in place of the truth value: "" counts as a transcript
TruthyNotNone(opt) == opt # None

\* Python truth value of an optional text: None and "" are false
Truthy(opt) == opt # None /\ opt[1] # <<>>

\* ------------------------------------------------------ request validation
\* validators.url(url), line 111: the library's verdict on the sample URLs
ValidUrls == {UrlExample, UrlWatch, UrlShort}
validators_url(url) == url \in ValidUrls

\* the language check left out
LanguageSupportedAny(language) == TRUE

\* language in language_codes, line 114
LanguageSupported(language) == language \in DOMAIN language_codes

\* ------------------------------------------------------ get_video_details
\* out is what request.execute() did: it raised, or it returned a reply
\* with a list of items.  response['items'][0] raises IndexError on an empty
\* list.
get_video_details(out) ==
    IF out.raised THEN [raised |-> TRUE, exc |-> Raised(out.msg), value |-> <<>>]
    ELSE IF Len(out.value) = 0
         THEN [raised |-> TRUE, exc |-> Raised(<<"list index out of range">>),
               value |-> <<>>]
         ELSE [raised |-> FALSE, exc |-> Raised(<<>>),
               value |-> <<out.value[1].title, out.value[1].description>>]

\* --------------------------------------------------------- get_transcript
\* " ".join(texts)
RECURSIVE Join(_)
Join(texts) ==
    IF Len(texts) = 0 THEN <<>>
    ELSE IF Len(texts) = 1 THEN texts[1]
    ELSE texts[1] \o <<" ">> \o Join(Tail(texts))

\* without the try/except: the service's exception leaves the function
get_transcript_unguarded(out) ==
    IF out.raised
    THEN [raised |-> TRUE, exc |-> Raised(out.msg), value |-> None, printed |-> <<>>]
    ELSE [raised |-> FALSE, exc |-> Raised(<<>>), value |-> Some(Join(out.value)),
          printed |-> <<>>]

\* out is what YouTubeTranscriptApi.get_transcript did.  Every exception is
\* caught, printed, and turned into None.
get_transcript(out) ==
    IF out.raised
    THEN [raised |-> FALSE, exc |-> Raised(<<>>), value |-> None,
          printed |-> << <<"An error occurred: ">> \o out.msg >>]
    ELSE [raised |-> FALSE, exc |-> Raised(<<>>), value |-> Some(Join(out.value)),
          printed |-> <<>>]

\* ------------------------------------------------------ prompt assembling
\* the title left out of the combined text
CombinedTextNoTitle(title, description, text) ==
    <<"Description: ">> \o description \o <<"\n\n", "Transcript: ">> \o text

\* f"Title: {title}\n\nDescription: {description}\n\nTranscript: {transcript}"
CombinedText(title, description, text) ==
    <<"Title: ">> \o title \o <<"\n\n", "Description: ">> \o description
        \o <<"\n\n", "Transcript: ">> \o text

\* prompt.format(text=..., language=...)
Format(tpl, text, language) ==
    tpl.prefix \o <<language>> \o tpl.mid \o text \o tpl.suffix

\* ---------------------------------------------------------------- inputs
Body(g, y, u, l) ==
    [groq_api_key |-> g, youtube_api_key |-> y, url |-> u, language |-> l]
EmptyBody == Body("", "", <<>>, "")

Failure(msg) == [raised |-> TRUE, msg |-> msg, value |-> <<>>]
Reply(value) == [raised |-> FALSE, msg |-> <<>>, value |-> value]

SampleUrls == {UrlNotAUrl, UrlNoScheme, UrlExample, UrlWatch, UrlShort}
SampleLanguages == {"English", "French", "Klingon"}
Requests ==
    {Body(g, y, u, l) : g \in {"gsk_1", ""}, y \in {"AIza_1", ""},
                        u \in SampleUrls, l \in SampleLanguages}

Snippets == {[title |-> <<"T">>, description |-> <<"D">>],
             [title |-> <<>>, description |-> <<"line 1", "\n", "line 2">>]}
MetadataOutcomes ==
    {Failure(<<"HttpError 403: quotaExceeded">>)}
        \cup {Reply(items) : items \in SeqsUpTo(Snippets, MaxItems)}

CaptionTexts == {<<>>, <<"hello">>, <<"world">>}
TranscriptOutcomes ==
    {Failure(<<"TranscriptsDisabled">>), Failure(<<"NoTranscriptFound">>)}
        \cup {Reply(entries) : entries \in SeqsUpTo(CaptionTexts, MaxEntries)}

LlmOutcomes ==
    {Failure(<<"AuthenticationError: invalid api key">>),
     Reply(<<"summary A">>), Reply(<<>>)}

\* the smaller input sets of the concurrent specification
ConcRequests ==
    {Body("gsk_1", "AIza_1", UrlNotAUrl, "English"),
     Body("gsk_1", "AIza_1", UrlExample, "English"),
     Body("gsk_1", "AIza_1", UrlWatch, "Klingon"),
     Body("gsk_1", "AIza_1", UrlWatch, "English")}
ConcMetadataOutcomes ==
    {Failure(<<"HttpError 403: quotaExceeded">>),
     Reply(<< [title |-> <<"T">>, description |-> <<"D">>] >>)}
ConcTranscriptOutcomes ==
    {Failure(<<"TranscriptsDisabled">>), Reply(<<>>), Reply(<< <<"hello">> >>)}
ConcLlmOutcomes ==
    {Failure(<<"AuthenticationError: invalid api key">>), Reply(<<"summary A">>)}

\* ------------------------------------------------------------------ Init
InitModule ==
    /\ language_codes = LanguageTable
    /\ prompt_template = PromptTemplateText
    /\ httpExcStr \in {"status_detail", "empty"}

InitHandlers ==
    /\ pc = [r \in Handlers |-> "idle"]
    /\ req = [r \in Handlers |-> EmptyBody]
    /\ model = [r \in Handlers |-> None]
    /\ video_id = [r \in Handlers |-> None]
    /\ details = [r \in Handlers |-> <<>>]
    /\ transcript = [r \in Handlers |-> None]
    /\ calls = [r \in Handlers |-> <<>>]
    /\ console = [r \in Handlers |-> <<>>]
    /\ response = [r \in Handlers |-> NoResponse]

Init ==
    /\ InitModule
    /\ InitHandlers
    /\ exPc = "off"
    /\ exUrl = <<>>
    /\ exResult = None

InitExtract ==
    /\ InitModule
    /\ InitHandlers
    /\ exPc = "call"
    /\ exUrl \in ExtractUrls
    /\ exResult = None

\* --------------------------------------------------------------- actions
\* the exception e leaves the handler: the framework answers with it
Raise(r, e) ==
    /\ response' = [response EXCEPT ![r] = Respond(e)]
    /\ pc' = [pc EXCEPT ![r] = "done"]

Goto(r, label) ==
    /\ pc' = [pc EXCEPT ![r] = label]
    /\ UNCHANGED response

\* lines 103-108: a request arrives and its body is bound
Receive(r, bodies) ==
    /\ pc[r] = "idle"
    /\ \E body \in bodies : req' = [req EXCEPT ![r] = body]
    /\ Goto(r, "validate")
    /\ UNCHANGED <<model, video_id, details, transcript, calls, console>>
    /\ UNCHANGED <<moduleVars, extractVars>>

\* a handler that records every language it sees in the module-level table
ValidateRegistering(r) ==
    /\ pc[r] = "validate"
    /\ language_codes' =
           IF req[r].language \in DOMAIN language_codes
           THEN language_codes
           ELSE language_codes @@ (req[r].language :> "en")
    /\ IF ~validators_url(req[r].url)
       THEN Raise(r, HTTPException(400, <<"Invalid URL">>))
       ELSE IF ~LanguageSupported(req[r].language)
            THEN Raise(r, HTTPException(400, <<"Invalid language">>))
            ELSE Goto(r, "try")
    /\ UNCHANGED <<req, model, video_id, details, transcript, calls, console>>
    /\ UNCHANGED <<prompt_template, httpExcStr, extractVars>>

\* the two checks in the other order
ValidateLanguageFirst(r) ==
    /\ pc[r] = "validate"
    /\ IF ~LanguageSupported(req[r].language)
       THEN Raise(r, HTTPException(400, <<"Invalid language">>))
       ELSE IF ~validators_url(req[r].url)
            THEN Raise(r, HTTPException(400, <<"Invalid URL">>))
            ELSE Goto(r, "try")
    /\ UNCHANGED <<req, model, video_id, details, transcript, calls, console>>
    /\ UNCHANGED <<moduleVars, extractVars>>

\* lines 110-115: both checks stand before the try block, so their
\* exceptions reach the framework as raised
Validate(r) ==
    /\ pc[r] = "validate"
    /\ IF ~validators_url(req[r].url)
       THEN Raise(r, HTTPException(400, <<"Invalid URL">>))
       ELSE IF ~LanguageSupported(req[r].language)
            THEN Raise(r, HTTPException(400, <<"Invalid language">>))
            ELSE Goto(r, "try")
    /\ UNCHANGED <<req, model, video_id, details, transcript, calls, console>>
    /\ UNCHANGED <<moduleVars, extractVars>>

\* lines 117-124 with 148-149: the client is built (no network), the ID is
\* extracted; the HTTPException raised for a missing ID is raised inside the
\* try block and is caught by "except Exception"
EnterTry(r) ==
    /\ pc[r] = "try"
    /\ model' = [model EXCEPT ![r] =
           Some([groq_api_key |-> req[r].groq_api_key, model_name |-> ModelName])]
    /\ LET id == extract_video_id(req[r].url)
       IN  /\ video_id' = [video_id EXCEPT ![r] = id]
           /\ IF id = None
              THEN Raise(r, ExceptHandler(HTTPException(400, <<"Invalid YouTube URL">>)))
              ELSE Goto(r, "metadata")
    /\ UNCHANGED <<req, details, transcript, calls, console>>
    /\ UNCHANGED <<moduleVars, extractVars>>

\* line 126 with 85-92 and 148-149
CallGetVideoDetails(r, outcomes) ==
    /\ pc[r] = "metadata"
    /\ \E out \in outcomes :
         LET res == get_video_details(out)
             call == [svc |-> "metadata",
                      args |-> << <<req[r].youtube_api_key>>, video_id[r][1] >>,
                      out |-> out]
         IN  /\ calls' = [calls EXCEPT ![r] = Append(@, call)]
             /\ IF res.raised
                THEN Raise(r, ExceptHandler(res.exc)) /\ UNCHANGED details
                ELSE /\ details' = [details EXCEPT ![r] = res.value]
                     /\ Goto(r, "transcript")
    /\ UNCHANGED <<req, model, video_id, transcript, console>>
    /\ UNCHANGED <<moduleVars, extractVars>>

\* lines 127-130 with 95-101 and 148-149: the HTTPException raised for a
\* missing transcript is raised inside the try block too
CallGetTranscript(r, outcomes) ==
    /\ pc[r] = "transcript"
    /\ \E out \in outcomes :
         LET res == get_transcript(out)
             call == [svc |-> "transcript",
                      args |-> << video_id[r][1],
                                  <<language_codes[req[r].language]>> >>,
                      out |-> out]
         IN  /\ calls' = [calls EXCEPT ![r] = Append(@, call)]
             /\ console' = [console EXCEPT ![r] = @ \o res.printed]
             /\ IF res.raised
                THEN Raise(r, ExceptHandler(res.exc)) /\ UNCHANGED transcript
                ELSE /\ transcript' = [transcript EXCEPT ![r] = res.value]
                     /\ IF ~Truthy(res.value)
                        THEN Raise(r, ExceptHandler(
                                 HTTPException(404, <<"Transcript not available">>)))
                        ELSE Goto(r, "llm")
    /\ UNCHANGED <<req, model, video_id, details>>
    /\ UNCHANGED <<moduleVars, extractVars>>

\* lines 132-149: the text is combined, the chain formats the prompt and
\* calls the model, and the output is returned
InvokeChain(r, outcomes) ==
    /\ pc[r] = "llm"
    /\ \E out \in outcomes :
         LET combined_text ==
                 CombinedText(details[r][1], details[r][2], transcript[r][1])
             call == [svc |-> "llm",
                      args |-> << <<model[r][1].groq_api_key>>,
                                  <<model[r][1].model_name>>,
                                  combined_text,
                                  Format(prompt_template, combined_text,
                                         req[r].language) >>,
                      out |-> out]
         IN  /\ calls' = [calls EXCEPT ![r] = Append(@, call)]
             /\ IF out.raised
                THEN Raise(r, ExceptHandler(Raised(out.msg)))
                ELSE /\ response' = [response EXCEPT ![r] = SummaryResponse(out.value)]
                     /\ pc' = [pc EXCEPT ![r] = "done"]
    /\ UNCHANGED <<req, model, video_id, details, transcript, console>>
    /\ UNCHANGED <<moduleVars, extractVars>>

\* extract_video_id called on its own
ExtractCall ==
    /\ exPc = "call"
    /\ exResult' = extract_video_id(exUrl)
    /\ exPc' = "returned"
    /\ UNCHANGED <<exUrl, moduleVars, handlerVars>>

\* -------------------------------------------------------- specifications
\* one request, the full input sets
Next ==
    \/ Receive(1, Requests)
    \/ Validate(1)
    \/ EnterTry(1)
    \/ CallGetVideoDetails(1, MetadataOutcomes)
    \/ CallGetTranscript(1, TranscriptOutcomes)
    \/ InvokeChain(1, LlmOutcomes)

Spec == Init /\ [][Next]_vars

\* NumRequests requests handled in any interleaving
NextConc ==
    \E r \in Handlers :
        \/ Receive(r, ConcRequests)
        \/ Validate(r)
        \/ EnterTry(r)
        \/ CallGetVideoDetails(r, ConcMetadataOutcomes)
        \/ CallGetTranscript(r, ConcTranscriptOutcomes)
        \/ InvokeChain(r, ConcLlmOutcomes)

SpecConc == Init /\ [][NextConc]_vars

\* extract_video_id on every input of ExtractUrls
NextExtract == ExtractCall

SpecExtract == InitExtract /\ [][NextExtract]_vars

\* ================================================================ claims
Done(r) == pc[r] = "done"
Started(r) == pc[r] \notin {"idle", "validate"}
NoCalls(r) == calls[r] = <<>>
SupportedLanguages == DOMAIN LanguageTable

\* positions of a "v=" or "/" that is followed by at least IdLen token
\* characters, each with the position where those characters start
Occurrences(url) ==
    {i \in 1..Len(url) :
        \/ /\ url[i] = "/"
           /\ i + IdLen <= Len(url)
           /\ \A k \in 1..IdLen : url[i + k] \in IdChars
        \/ /\ url[i] = "v"
           /\ i + 1 + IdLen <= Len(url)
           /\ url[i + 1] = "="
           /\ \A k \in 1..IdLen : url[i + 1 + k] \in IdChars}
TokenStart(url, i) == IF url[i] = "/" THEN i + 1 ELSE i + 2
Leftmost(S) == CHOOSE i \in S : \A j \in S : i <= j
NoVideoToken(url) == Occurrences(url) = {}

\* the outcome the handler sees of a call it has made
MetadataFailed(call) == call.out.raised \/ Len(call.out.value) = 0
TranscriptText(call) == Join(call.out.value)
TranscriptMissing(call) == call.out.raised \/ TranscriptText(call) = <<>>

\* C1: a request with a valid URL and a supported language whose URL holds no
\* video token is answered 400 "Invalid YouTube URL", and no external call
\* is made for it.
C1_InvalidYouTubeUrlIs400 ==
    (/\ Started(1) /\ pc[1] # "try"
     /\ validators_url(req[1].url)
     /\ req[1].language \in SupportedLanguages
     /\ NoVideoToken(req[1].url))
        => /\ Done(1)
           /\ response[1] = ErrorResponse(400, <<"Invalid YouTube URL">>)
           /\ NoCalls(1)

\* C2: after a successful metadata fetch, a transcript fetch that yields no
\* text (missing, or the empty string) is answered 404 "Transcript not
\* available", and the LLM service is not called.
C2_MissingTranscriptIs404 ==
    (/\ Len(calls[1]) >= 2
     /\ ~MetadataFailed(calls[1][1])
     /\ TranscriptMissing(calls[1][2]))
        => /\ Done(1)
           /\ response[1] = ErrorResponse(404, <<"Transcript not available">>)
           /\ Len(calls[1]) = 2

\* C3 as stated: every request whose language is outside the ten supported
\* ones is answered 400 "Invalid language", before the LLM client exists and
\* before any external call.
C3_AnyUnsupportedLanguage ==
    (Started(1) /\ req[1].language \notin SupportedLanguages)
        => /\ Done(1)
           /\ response[1] = ErrorResponse(400, <<"Invalid language">>)
           /\ model[1] = None
           /\ NoCalls(1)

\* C3 amended: every request whose URL passes the URL check and whose
\* language is outside the ten supported ones is answered 400 "Invalid
\* language", before the LLM client exists and before any external call.
C3_UnsupportedLanguage ==
    /\ Cardinality(SupportedLanguages) = 10
    /\ (/\ Started(1)
        /\ validators_url(req[1].url)
        /\ req[1].language \notin SupportedLanguages)
          => /\ Done(1)
             /\ response[1] = ErrorResponse(400, <<"Invalid language">>)
             /\ model[1] = None
             /\ NoCalls(1)

C3_Witness ==
    /\ Done(1)
    /\ req[1].url = UrlWatch
    /\ req[1].language = "Klingon"
    /\ response[1].status = 400

\* C4: every request whose URL fails the URL check is answered 400 "Invalid
\* URL", whatever its language and API keys, and no external call is made.
C4_InvalidUrl ==
    (Started(1) /\ ~validators_url(req[1].url))
        => /\ Done(1)
           /\ response[1] = ErrorResponse(400, <<"Invalid URL">>)
           /\ model[1] = None
           /\ NoCalls(1)

C4_Witness ==
    /\ Done(1)
    /\ req[1].url = UrlNoScheme
    /\ req[1].language = "Klingon"
    /\ req[1].groq_api_key = ""
    /\ req[1].youtube_api_key = ""
    /\ response[1].status = 400

\* C5: an exception of the metadata fetch (the service raised, or the reply
\* has no item) or of the LLM call is answered 500 with a detail that holds
\* the exception's message, and no summary.
C5_UpstreamFailureIs500 ==
    /\ (Len(calls[1]) >= 1 /\ MetadataFailed(calls[1][1]))
          => /\ Done(1)
             /\ response[1].status = 500
             /\ response[1].body = "detail"
             /\ Contains(response[1].text,
                         IF calls[1][1].out.raised
                         THEN calls[1][1].out.msg
                         ELSE <<"list index out of range">>)
    /\ (Len(calls[1]) >= 3 /\ calls[1][3].out.raised)
          => /\ Done(1)
             /\ response[1].status = 500
             /\ response[1].body = "detail"
             /\ Contains(response[1].text, calls[1][3].out.msg)

C5_Witness ==
    /\ Done(1)
    /\ Len(calls[1]) = 3
    /\ calls[1][3].svc = "llm"
    /\ calls[1][3].out.raised
    /\ calls[1][3].out.msg # <<>>
    /\ response[1].status = 500

\* C6: with title T, description D and a non-empty transcript X fetched, the
\* text passed into the chain holds "Title: T", "Description: D" and
\* "Transcript: X", and the response is 200 with exactly the LLM's output as
\* its summary.
C6_HappyPath ==
    (/\ Len(calls[1]) >= 2
     /\ ~MetadataFailed(calls[1][1])
     /\ ~TranscriptMissing(calls[1][2])
     /\ Done(1))
        => LET T == calls[1][1].out.value[1].title
               D == calls[1][1].out.value[1].description
               X == TranscriptText(calls[1][2])
           IN  /\ Len(calls[1]) = 3
               /\ calls[1][3].svc = "llm"
               /\ Contains(calls[1][3].args[3], <<"Title: ">> \o T)
               /\ Contains(calls[1][3].args[3], <<"Description: ">> \o D)
               /\ Contains(calls[1][3].args[3], <<"Transcript: ">> \o X)
               /\ Contains(calls[1][3].args[4], calls[1][3].args[3])
               /\ ~calls[1][3].out.raised
                     => response[1] = SummaryResponse(calls[1][3].out.value)

C6_Witness ==
    /\ Done(1)
    /\ Len(calls[1]) = 3
    /\ calls[1][1].out.value[1].title = <<"T">>
    /\ calls[1][1].out.value[1].description = <<"D">>
    /\ TranscriptText(calls[1][2]) = <<"hello", " ", "world">>
    /\ response[1] = SummaryResponse(<<"summary A">>)

PipelineOrder == <<"metadata", "transcript", "llm">>
CallSucceeded(call) ==
    IF call.svc = "metadata" THEN ~MetadataFailed(call)
    ELSE IF call.svc = "transcript" THEN ~TranscriptMissing(call)
    ELSE ~call.out.raised
\* C7: the external calls of a request are, in this order and at most once
\* each, the metadata fetch, the transcript fetch and the LLM call; a call is
\* made only after every earlier one succeeded (the transcript non-empty);
\* after a failed stage, and after the response, no call is made.
C7_CallsInOrder ==
    /\ Len(calls[1]) <= 3
    /\ \A i \in 1..Len(calls[1]) : calls[1][i].svc = PipelineOrder[i]
    /\ \A i \in 1..(Len(calls[1]) - 1) : CallSucceeded(calls[1][i])
    /\ (calls[1] # <<>> /\ ~CallSucceeded(calls[1][Len(calls[1])])) => Done(1)
    /\ Len(calls[1]) = 3 => Done(1)

C7_Witness ==
    /\ Done(1)
    /\ Len(calls[1]) = 2
    /\ ~calls[1][2].out.raised
    /\ TranscriptText(calls[1][2]) = <<>>
    /\ Len(calls[1][2].out.value) = 1

NoTextResponses ==
    {ErrorResponse(500, <<"Error occurred: ", "404", ": ", "Transcript not available">>),
     ErrorResponse(500, <<"Error occurred: ">>)}
\* C8: a failure of the transcript service never reaches the handler as an
\* exception: the fetcher returns None, the handler answers as it does for a
\* transcript without text, and the service's message is not in the detail.
C8_TranscriptFailureSwallowed ==
    /\ (Len(calls[1]) >= 2 /\ calls[1][2].out.raised)
          => /\ transcript[1] = None
             /\ Done(1)
             /\ Len(calls[1]) = 2
             /\ response[1] \in NoTextResponses
             /\ ~Contains(response[1].text, calls[1][2].out.msg)
             /\ console[1] = << <<"An error occurred: ">> \o calls[1][2].out.msg >>
    /\ (Len(calls[1]) >= 2 /\ ~calls[1][2].out.raised /\ TranscriptText(calls[1][2]) = <<>>)
          => response[1] \in NoTextResponses

C8_Witness ==
    /\ Done(1)
    /\ Len(calls[1]) = 2
    /\ calls[1][2].out.raised
    /\ calls[1][2].out.msg = <<"TranscriptsDisabled">>

\* C9: extract_video_id returns nothing or IdLen token characters: the ones
\* right after the leftmost "v=" or "/" that is followed by at least IdLen
\* token characters, and nothing exactly when the URL has no such place.
C9_ExtractVideoId ==
    exPc = "returned" =>
        /\ exResult = None <=> Occurrences(exUrl) = {}
        /\ exResult # None =>
              LET i == TokenStart(exUrl, Leftmost(Occurrences(exUrl)))
              IN  /\ Len(exResult[1]) = IdLen
                  /\ \A k \in 1..IdLen : exResult[1][k] \in IdChars
                  /\ exResult[1] = SubSeq(exUrl, i, i + IdLen - 1)

C9_Witness ==
    /\ exPc = "returned"
    /\ exResult # None
    /\ Cardinality(Occurrences(exUrl)) >= 2
    /\ \E j \in Occurrences(exUrl) :
          SubSeq(exUrl, TokenStart(exUrl, j), TokenStart(exUrl, j) + IdLen - 1)
              # exResult[1]

Local(r) == <<pc[r], req[r], model[r], video_id[r], details[r], transcript[r],
              calls[r], console[r], response[r]>>
C10_SameInputsSameResponse ==
    \A r1, r2 \in Handlers :
        (Done(r1) /\ Done(r2) /\ req[r1] = req[r2] /\ calls[r1] = calls[r2])
            => response[r1] = response[r2]
C10_StepIsolated ==
    /\ language_codes' = language_codes
    /\ prompt_template' = prompt_template
    /\ \A r1, r2 \in Handlers :
          (r1 # r2 /\ Local(r1)' # Local(r1)) => Local(r2)' = Local(r2)
\* C10: with requests interleaved in any way, a response is a function of
\* the request's own body and of the outcomes of its own calls; a step of one
\* handler leaves every other request's state alone; and no step changes the
\* language table or the prompt template.
C10_RequestsIndependent ==
    /\ []C10_SameInputsSameResponse
    /\ [][C10_StepIsolated]_vars

C10_Witness ==
    /\ Done(1) /\ Done(2)
    /\ req[1] = req[2]
    /\ Len(calls[1]) = 3 /\ Len(calls[2]) = 2
    /\ response[1].status = 200
    /\ response[2].status = 500

====
